---- MODULE Spec2Model ----
(***************************************************************************)
(* A state-machine model of Pcap++/src/KniDevice.cpp: the KNI device, its  *)
(* attribute cache, its burst receive/transmit operations, the background  *)
(* capture thread and the request-handler threads.                         *)
(*                                                                         *)
(* The user thread calls the public operations one at a time; an operation *)
(* that joins a thread (stopCapture, close, the destructor) is split at    *)
(* the join.  Worker threads take their own steps in between.              *)
(***************************************************************************)
EXTENDS Integers, Sequences, FiniteSets, TLC

\* ------------------------------------------------------------- constants
MAX_BURST_SIZE == 64

\* ---------------------------------------------------------------- bounds
\* mempoolSize of the constructor: the number of buffers of the pool.
PoolSize == 66
\* The kernel side fills the RX ring in batches of this many buffers.
ArriveBatch == 65
\* Longest array handed to a send operation.
MaxSend == 3
\* Thread slots of the process per role (pthread_create fails beyond them).
MaxCapThreads == 2
MaxReqThreads == 2
\* Longest timeout (seconds) handed to startCaptureBlockingMode.
MaxTimeout == 2
\* The clock (seconds) when startCaptureBlockingMode reads its start time.
StartTimeSec == 1
\* Seconds the clock may run past a blocking capture's deadline.
MaxLate == 2

VARIABLES
    m_Device,        \* "null" | "valid" | "released": the rte_kni handle
    hasUpdateLink,   \* RTE_VERSION >= 18.11: rte_kni_update_link exists
    m_DeviceOpened,
    info,            \* m_DeviceInfo: [link, mac, mtu, promisc]
    kern,            \* the kernel's interface: [up, promisc, mac, mtu]
    engLink,         \* the engine's carrier state, 0 or 1
    m_Capturing,     \* [thread: "null" | "obj" | "dangling", tid, state, callback]
    capT,            \* capture thread slots: [pc, cancel, held, cb]
    m_Requests,      \* [thread: "null" | "obj", tid, state]
    reqT,            \* request thread slots: [pc, cancel]
    ring,            \* buffers waiting on the RX ring
    pool,            \* buffers in the mempool
    userHeld,        \* buffers owned by slots the caller holds
    leaked,          \* buffers no owner can reach any more
    mainpc,          \* the user thread: "idle" | "stopJoin" | "closeJoin" | "dtorJoin" | "blocking" | "destroyed"
    blk,             \* startCaptureBlockingMode's frame: [timeout, start, cur, now]
    last,            \* the last public call: [op, arg, ret, aux]
    nullPrim,        \* a burst primitive was called on a NULL handle
    usedReleased,    \* rte_kni_handle_request ran on a released handle
    crashed          \* the process died (an outcome of undefined behaviour)

vars == <<m_Device, hasUpdateLink, m_DeviceOpened, info, kern, engLink,
          m_Capturing, capT, m_Requests, reqT, ring, pool, userHeld, leaked,
          mainpc, blk, last, nullPrim, usedReleased, crashed>>

devVars  == <<m_Device, hasUpdateLink>>
linkVars == <<info, kern, engLink>>
capVars  == <<m_Capturing, capT>>
reqVars  == <<m_Requests, reqT>>
bufVars  == <<ring, pool, userHeld, leaked>>
histVars == <<nullPrim, usedReleased>>

\* --------------------------------------------------------------- helpers
Min(a, b) == IF a <= b THEN a ELSE b

\* A value stored in a uint16_t.
U16(x) == x % 65536

CapSlots == 1..MaxCapThreads
ReqSlots == 1..MaxReqThreads

NoCapThread == [pc |-> "none", cancel |-> FALSE, held |-> 0, cb |-> "null"]
NoReqThread == [pc |-> "none", cancel |-> FALSE]

\* A thread that is running (created and not yet terminated).
CapAlive(t) == capT[t].pc \in {"burst", "cb", "tail"}
ReqAlive(t) == reqT[t].pc \in {"sleep", "pump"}

FreeCapSlots == {t \in CapSlots : capT[t].pc = "none"}
FreeReqSlots == {t \in ReqSlots : reqT[t].pc = "none"}

LowestOf(S) == CHOOSE t \in S : \A u \in S : t <= u

Call(op, arg, ret, aux) == [op |-> op, arg |-> arg, ret |-> ret, aux |-> aux]

Idle == mainpc = "idle" /\ ~crashed

LinkStates == {"UP", "DOWN", "NOT_SUPPORTED", "ERROR"}

\* ------------------------------------------------------------- KniThread
\* KniThread::KniThread: m_State after the constructor, given whether
\* pthread_create and pthread_detach succeeded.
KniThreadState(s, createOk, detachOk) ==
    IF ~createOk THEN "INVALID"
    ELSE IF s = "DETACHED" /\ ~detachOk THEN "INVALID"
    ELSE s

KniThreadNeverJoins(state) == FALSE

\* KniThread::~KniThread joins only a JOINABLE thread.
KniThreadJoins(state) == state = "JOINABLE"

\* ------------------------------------------------------------ link state
\* The cast (KniLinkState)rte_kni_update_link(...): the previous carrier
\* state, or -1.
KniLinkStateOf(r) ==
    CASE r = 1 -> "UP"
      [] r = 0 -> "DOWN"
      [] r = -1 -> "ERROR"
      [] OTHER -> "NOT_SUPPORTED"

\* rte_kni_update_link: what it may return now.
EngRets == {-1, engLink}

setKniDeviceLinkState(kni, state, r) ==
    IF kni = "null" \/ ~(state = "UP" \/ state = "DOWN")
    THEN "ERROR"
    ELSE IF hasUpdateLink THEN KniLinkStateOf(r) ELSE "NOT_SUPPORTED"

\* The carrier state after setKniDeviceLinkState(kni, state) got r.
EngAfter(kni, state, r) ==
    IF kni = "valid" /\ state \in {"UP", "DOWN"} /\ hasUpdateLink /\ r # -1
    THEN (IF state = "UP" THEN 1 ELSE 0)
    ELSE engLink

UpdateLinkCacheUnlessError(state, old) ==
    IF old # "ERROR" THEN state ELSE info.link

\* KniDevice::updateLinkState: the cached link after the call returned old.
UpdateLinkCache(state, old) ==
    IF old # "NOT_SUPPORTED" /\ old # "ERROR" THEN state ELSE info.link

\* KniDevice::open: the switch over m_DeviceInfo.link.
OpenResult(link) ==
    CASE link = "ERROR" -> FALSE
      [] link \in {"NOT_SUPPORTED", "DOWN", "UP"} -> TRUE
      [] OTHER -> FALSE

\* KniCapturing::isRunning.
isRunning == m_Capturing.thread # "null"

\* -------------------------------------------------------------- engine
\* rte_kni_rx_burst(kni, bufs, num): the number of buffers it hands over.
RxBurst(num) == Min(ring, num)

\* ---------------------------------------------------------- construction
NoCapturing == [thread |-> "null", tid |-> 0, state |-> "-", callback |-> "null"]
NoRequests  == [thread |-> "null", tid |-> 0, state |-> "-"]
\* No call of startCaptureBlockingMode is in progress.
NoBlocking  == [timeout |-> 0, start |-> 0, cur |-> 0, now |-> 0]

\* KniDeviceInfo::init
InitInfo(confMac, confMtu) ==
    [link |-> "NOT_SUPPORTED", mac |-> confMac, mtu |-> confMtu,
     promisc |-> "DISABLE"]

\* KniDevice::KniDevice: poolFailed and allocFailed say whether
\* createMempool and rte_kni_alloc returned NULL.
Construct(poolFailed, allocFailed, confMac, confMtu) ==
    /\ m_Device = (IF poolFailed \/ allocFailed THEN "null" ELSE "valid")
    /\ m_DeviceOpened = FALSE
    /\ info = InitInfo(confMac, confMtu)
    /\ m_Capturing = NoCapturing
    /\ m_Requests = NoRequests
    /\ kern = [up |-> FALSE, promisc |-> FALSE,
               mac |-> (IF confMac = "zero" THEN "E" ELSE confMac),
               mtu |-> confMtu]

InitRest ==
    /\ hasUpdateLink \in BOOLEAN
    /\ engLink = 0
    /\ capT = [t \in CapSlots |-> NoCapThread]
    /\ reqT = [t \in ReqSlots |-> NoReqThread]
    /\ ring = 0
    /\ pool = PoolSize
    /\ userHeld = 0
    /\ leaked = 0
    /\ mainpc = "idle"
    /\ blk = NoBlocking
    /\ last = Call("new", "-", "-", "-")
    /\ nullPrim = FALSE
    /\ usedReleased = FALSE
    /\ crashed = FALSE

Init ==
    /\ \E poolFailed \in BOOLEAN, allocFailed \in BOOLEAN :
           Construct(poolFailed, allocFailed, "zero", 1500)
    /\ InitRest

\* ------------------------------------------------------- open and close
OpenNeverRejected == FALSE

\* KniDevice::open: an opened device is turned away.
OpenRejected == m_DeviceOpened

\* KniDevice::open
Open ==
    /\ Idle
    /\ IF OpenRejected
       THEN /\ last' = Call("open", "-", FALSE, "-")
            /\ UNCHANGED <<m_DeviceOpened, info, engLink>>
       ELSE \E r \in EngRets :
              LET old  == setKniDeviceLinkState(m_Device, "UP", r)
                  link == UpdateLinkCache("UP", old)
              IN  /\ info' = [info EXCEPT !.link = link]
                  /\ engLink' = EngAfter(m_Device, "UP", r)
                  /\ m_DeviceOpened' = OpenResult(link)
                  /\ last' = Call("open", "-", OpenResult(link), old)
    /\ UNCHANGED <<devVars, kern, capVars, reqVars, bufVars, mainpc, blk,
                   histVars, crashed>>

\* KniDevice::updateLinkState
UpdateLinkState ==
    /\ Idle
    /\ \E state \in LinkStates, r \in EngRets :
         LET old == setKniDeviceLinkState(m_Device, state, r)
         IN  /\ info' = [info EXCEPT !.link = UpdateLinkCache(state, old)]
             /\ engLink' = EngAfter(m_Device, state, r)
             /\ last' = Call("updateLinkState", state, old, "-")
    /\ UNCHANGED <<devVars, m_DeviceOpened, kern, capVars, reqVars, bufVars,
                   mainpc, blk, histVars, crashed>>

\* KniCapturing::cleanup up to the join: thread->cancel() when a thread is
\* recorded.  Calling it through a dangling pointer is undefined; the
\* process dies or goes on.
CleanupCancel(crash) ==
    /\ capT' = IF m_Capturing.thread = "obj"
               THEN [capT EXCEPT ![m_Capturing.tid].cancel = TRUE]
               ELSE capT
    /\ crashed' = (m_Capturing.thread = "dangling" /\ crash)

\* delete thread: the join of ~KniThread has returned.
JoinDone ==
    (m_Capturing.thread = "obj" /\ KniThreadJoins(m_Capturing.state))
        => capT[m_Capturing.tid].pc = "exited"

CleanupKeepsThread ==
    /\ capT' = capT
    /\ m_Capturing' = m_Capturing

\* KniCapturing::cleanup from the join on: the joined thread is gone and
\* the fields are cleared.
CleanupClear ==
    /\ capT' = IF m_Capturing.thread = "obj"
                  /\ KniThreadJoins(m_Capturing.state)
               THEN [capT EXCEPT ![m_Capturing.tid] = NoCapThread]
               ELSE capT
    /\ m_Capturing' = NoCapturing

\* KniDevice::close: up to the join of the capture thread.
Close ==
    /\ Idle
    /\ \E crash \in BOOLEAN : CleanupCancel(crash)
    /\ mainpc' = "closeJoin"
    /\ blk' = blk
    /\ UNCHANGED <<devVars, m_DeviceOpened, linkVars, m_Capturing, reqVars,
                   bufVars, last, histVars>>

\* KniDevice::close: from the join on.
CloseJoin ==
    /\ mainpc = "closeJoin" /\ ~crashed
    /\ JoinDone
    /\ IF m_Capturing.thread # "null" THEN CleanupClear
                                      ELSE UNCHANGED capVars
    /\ \E r \in EngRets :
         LET old == setKniDeviceLinkState(m_Device, "DOWN", r)
         IN  /\ info' = [info EXCEPT !.link = UpdateLinkCache("DOWN", old)]
             /\ engLink' = EngAfter(m_Device, "DOWN", r)
    /\ m_DeviceOpened' = FALSE
    /\ mainpc' = "idle"
    /\ blk' = blk
    /\ last' = Call("close", "-", "-",
                    IF m_Capturing.thread # "null" THEN "stoppedCapture"
                                                   ELSE "noCapture")
    /\ UNCHANGED <<devVars, kern, reqVars, bufVars, histVars, crashed>>

\* ------------------------------------------------------ background capture
Callbacks == {"null", "cb"}

\* KniDevice::startCapture: m_Capturing.thread after a KniThread that came
\* out INVALID was deleted: the pointer is not reset.
FailedCaptureThread == "dangling"

StartCaptureRejectedIfClosed == ~m_DeviceOpened

\* KniDevice::startCapture: the two preconditions.
StartCaptureRejected == ~m_DeviceOpened \/ m_Capturing.thread # "null"

\* KniDevice::startCapture
StartCapture ==
    /\ Idle
    /\ \E cb \in Callbacks, createOk \in BOOLEAN :
         IF StartCaptureRejected
         THEN /\ last' = Call("startCapture", cb, FALSE, "rejected")
              /\ UNCHANGED capVars
         ELSE LET ok == createOk /\ FreeCapSlots # {}
                  st == KniThreadState("JOINABLE", ok, TRUE)
                  t  == LowestOf(FreeCapSlots)
              IN  IF st = "INVALID"
                  THEN /\ m_Capturing' = [thread |-> FailedCaptureThread,
                                          tid |-> 0, state |-> "-",
                                          callback |-> cb]
                       /\ capT' = capT
                       /\ last' = Call("startCapture", cb, FALSE, "spawnFailed")
                  ELSE /\ m_Capturing' = [thread |-> "obj", tid |-> t,
                                          state |-> st, callback |-> cb]
                       /\ capT' = [capT EXCEPT ![t] =
                                     [pc |-> "burst", cancel |-> FALSE,
                                      held |-> 0, cb |-> cb]]
                       /\ last' = Call("startCapture", cb, TRUE, "spawned")
    /\ UNCHANGED <<devVars, m_DeviceOpened, linkVars, reqVars, bufVars,
                   mainpc, blk, histVars, crashed>>

\* The recorded capture thread has left runCapture (its callback returned
\* false) and waits to be joined.
WorkerExited ==
    m_Capturing.thread = "obj" /\ capT[m_Capturing.tid].pc = "exited"

\* KniDevice::stopCapture: up to the join.
StopCapture ==
    /\ Idle
    /\ IF m_Capturing.thread = "null"
       THEN /\ last' = Call("stopCapture", "-", "-", "noThread")
            /\ UNCHANGED <<capT, mainpc, blk, crashed>>
       ELSE /\ \E crash \in BOOLEAN : CleanupCancel(crash)
            /\ mainpc' = "stopJoin"
            /\ blk' = blk
            /\ last' = Call("stopCapture", "-", "-",
                            IF WorkerExited THEN "joinExited" ELSE "joinRunning")
    /\ UNCHANGED <<devVars, m_DeviceOpened, linkVars, m_Capturing, reqVars,
                   bufVars, histVars>>

\* KniDevice::stopCapture: from the join on.
StopCaptureJoin ==
    /\ mainpc = "stopJoin" /\ ~crashed
    /\ JoinDone
    /\ CleanupClear
    /\ mainpc' = "idle"
    /\ blk' = blk
    /\ last' = Call("stopCapture", "-", "-",
                    IF last.aux = "joinExited" THEN "stoppedExited"
                                               ELSE "stopped")
    /\ UNCHANGED <<devVars, m_DeviceOpened, linkVars, reqVars, bufVars,
                   histVars, crashed>>

\* KniCapturing::runCapture: rte_kni_rx_burst and the binding of the
\* buffers to the stack slots.  A burst on a handle that is not a live
\* device is undefined: the thread's process dies, or the burst yields
\* nothing.
CaptureBurst(t) ==
    /\ ~crashed
    /\ capT[t].pc = "burst"
    /\ IF m_Device # "valid"
       THEN /\ nullPrim' = (nullPrim \/ m_Device = "null")
            /\ \E crash \in BOOLEAN : crashed' = crash
            /\ capT' = [capT EXCEPT ![t].pc = "tail"]
            /\ UNCHANGED bufVars
       ELSE LET n == RxBurst(MAX_BURST_SIZE)
            IN  /\ ring' = ring - n
                /\ IF n = 0
                   THEN /\ capT' = [capT EXCEPT ![t].pc = "tail"]
                        /\ UNCHANGED leaked
                   ELSE IF capT[t].cb # "null"
                   THEN /\ capT' = [capT EXCEPT ![t].pc = "cb", ![t].held = n]
                        /\ UNCHANGED leaked
                   ELSE /\ capT' = [capT EXCEPT ![t].pc = "tail"]
                        /\ leaked' = leaked + n
                /\ UNCHANGED <<pool, userHeld, nullPrim, crashed>>
    /\ UNCHANGED <<devVars, m_DeviceOpened, linkVars, m_Capturing, reqVars,
                   mainpc, blk, last, usedReleased>>

\* KniCapturing::runCapture: the callback returns; the stack slots go out
\* of scope and give their buffers back; false leaves the loop.
CaptureCallbackReturn(t) ==
    /\ ~crashed
    /\ capT[t].pc = "cb"
    /\ \E cont \in BOOLEAN :
         capT' = [capT EXCEPT ![t].pc = IF cont THEN "tail" ELSE "exited",
                              ![t].held = 0]
    /\ pool' = pool + capT[t].held
    /\ UNCHANGED <<devVars, m_DeviceOpened, linkVars, m_Capturing, reqVars,
                   ring, userHeld, leaked, mainpc, blk, last, histVars, crashed>>

CaptureCancellationPointsAnywhere == {"burst", "cb", "tail"}

\* KniCapturing::runCapture: where the thread looks for a pending
\* cancellation: the two pthread_testcancel calls, after a burst of nothing
\* and after the block of the callback.
CaptureCancellationPoints == {"tail"}

AfterTestCancelIgnored(cancel) == "burst"

\* pthread_testcancel: the thread ends when a cancellation is pending, and
\* goes round its loop otherwise.
AfterTestCancel(cancel) == IF cancel THEN "exited" ELSE "burst"

\* KniCapturing::runCapture: pthread_testcancel at the tail of an iteration.
CaptureTestCancel(t) ==
    /\ ~crashed
    /\ capT[t].pc \in CaptureCancellationPoints
    /\ capT' = [capT EXCEPT ![t].pc = AfterTestCancel(capT[t].cancel)]
    /\ UNCHANGED <<devVars, m_DeviceOpened, linkVars, m_Capturing, reqVars,
                   bufVars, mainpc, blk, last, histVars, crashed>>

\* ------------------------------------------------------- blocking capture
Timeouts == -1..MaxTimeout

BlockingRejectedIfCapturing == m_Capturing.thread # "null"

\* KniDevice::startCaptureBlockingMode: the two preconditions on the device.
BlockingRejected == ~m_DeviceOpened \/ m_Capturing.thread # "null"

\* KniDevice::startCaptureBlockingMode: up to the loop.  The callback is
\* stored before it is tested against NULL.  While the call is in its loop
\* nothing is returned yet: last.aux = "running" says so, and last.ret keeps
\* an integer so that the records of one call stay comparable.
StartCaptureBlockingMode ==
    /\ Idle
    /\ \E cb \in Callbacks, timeout \in Timeouts :
         LET arg == [cb |-> cb, timeout |-> timeout]
         IN  IF BlockingRejected
             THEN /\ last' = Call("captureBlocking", arg, 0, "rejected")
                  /\ UNCHANGED <<m_Capturing, mainpc, blk>>
             ELSE /\ m_Capturing' = [m_Capturing EXCEPT !.callback = cb]
                  /\ IF cb = "null"
                     THEN /\ last' = Call("captureBlocking", arg, 0,
                                          "nullCallback")
                          /\ UNCHANGED <<mainpc, blk>>
                     ELSE /\ mainpc' = "blocking"
                          /\ blk' = [timeout |-> timeout,
                                     start |-> StartTimeSec, cur |-> 0,
                                     now |-> StartTimeSec]
                          /\ last' = Call("captureBlocking", arg, 0,
                                          "running")
    /\ UNCHANGED <<devVars, m_DeviceOpened, linkVars, capT, reqVars, bufVars,
                   histVars, crashed>>

\* startCaptureBlockingMode returns.
BlockingReturn(ret, why) ==
    /\ mainpc' = "idle"
    /\ blk' = NoBlocking
    /\ last' = Call("captureBlocking", last.arg, ret, why)

\* startCaptureBlockingMode goes round its loop, having sampled `sampled`.
BlockingContinue(sampled) ==
    /\ mainpc' = mainpc
    /\ blk' = [blk EXCEPT !.cur = sampled]
    /\ last' = last

BlockingExpiredAtDeadline ==
    blk.timeout > 0 /\ blk.cur >= blk.start + blk.timeout

\* The test of the timed loop: while (curTimeSec <= startTimeSec + timeout).
BlockingExpired ==
    blk.timeout > 0 /\ ~(blk.cur <= blk.start + blk.timeout)

\* KniDevice::startCaptureBlockingMode: one pass of the loop: the test of
\* the timed loop, clockGetTime, rte_kni_rx_burst, and the callback over the
\* stack slots, which give their buffers back when the block is left.  A
\* burst on a NULL handle is undefined: the process dies or nothing arrives.
BlockingIter ==
    /\ mainpc = "blocking" /\ ~crashed
    /\ IF BlockingExpired
       THEN /\ BlockingReturn(-1, "deadline")
            /\ UNCHANGED <<bufVars, nullPrim, crashed>>
       ELSE LET sampled == IF blk.timeout > 0 THEN blk.now ELSE blk.cur
            IN  IF m_Device # "valid"
                THEN /\ nullPrim' = (nullPrim \/ m_Device = "null")
                     /\ \E crash \in BOOLEAN : crashed' = crash
                     /\ BlockingContinue(sampled)
                     /\ UNCHANGED bufVars
                ELSE LET n == RxBurst(MAX_BURST_SIZE)
                     IN  /\ ring' = ring - n
                         /\ pool' = pool + n
                         /\ UNCHANGED <<userHeld, leaked, nullPrim, crashed>>
                         /\ IF n = 0
                            THEN BlockingContinue(sampled)
                            ELSE \E cont \in BOOLEAN :
                                   IF cont
                                   THEN BlockingContinue(sampled)
                                   ELSE BlockingReturn(1, "callbackFalse")
    /\ UNCHANGED <<devVars, m_DeviceOpened, linkVars, capVars, reqVars,
                   usedReleased>>

\* A second passes while startCaptureBlockingMode runs its timed loop.
BlockingTick ==
    /\ mainpc = "blocking" /\ ~crashed
    /\ blk.timeout > 0
    /\ blk.now < blk.start + blk.timeout + MaxLate
    /\ blk' = [blk EXCEPT !.now = @ + 1]
    /\ UNCHANGED <<devVars, m_DeviceOpened, linkVars, capVars, reqVars,
                   bufVars, mainpc, last, histVars, crashed>>

\* ------------------------------------------------------- request handler
\* KniRequests::cleanup: cancel the recorded thread, delete the KniThread
\* (a DETACHED or INVALID one is not joined) and clear the pointer.
RequestsCleanup(T) ==
    IF m_Requests.thread = "obj" /\ m_Requests.tid # 0
    THEN [T EXCEPT ![m_Requests.tid].cancel = TRUE]
    ELSE T

\* KniDevice::startRequestHandlerThread
StartRequestHandlerThread ==
    /\ Idle
    /\ \E createOk \in BOOLEAN, detachOk \in BOOLEAN :
         IF m_Requests.thread # "null"
         THEN /\ last' = Call("startRequests", "-", FALSE, "rejected")
              /\ UNCHANGED reqVars
         ELSE LET ok == createOk /\ FreeReqSlots # {}
                  st == KniThreadState("DETACHED", ok, detachOk)
                  t  == LowestOf(FreeReqSlots)
              IN  IF st = "INVALID"
                  THEN \* cleanup(): the thread that was created but not
                       \* detached is cancelled; the object is deleted
                       /\ reqT' = IF ok
                                  THEN [reqT EXCEPT ![t] =
                                          [pc |-> "sleep", cancel |-> TRUE]]
                                  ELSE reqT
                       /\ m_Requests' = NoRequests
                       /\ last' = Call("startRequests", "-", FALSE, "spawnFailed")
                  ELSE /\ reqT' = [reqT EXCEPT ![t] =
                                     [pc |-> "sleep", cancel |-> FALSE]]
                       /\ m_Requests' = [thread |-> "obj", tid |-> t,
                                         state |-> st]
                       /\ last' = Call("startRequests", "-", TRUE, "spawned")
    /\ UNCHANGED <<devVars, m_DeviceOpened, linkVars, capVars, bufVars,
                   mainpc, blk, histVars, crashed>>

\* KniDevice::stopRequestHandlerThread
StopRequestHandlerThread ==
    /\ Idle
    /\ reqT' = RequestsCleanup(reqT)
    /\ m_Requests' = NoRequests
    /\ last' = Call("stopRequests", "-", "-",
                    IF m_Requests.thread = "null" THEN "noThread" ELSE "stopped")
    /\ UNCHANGED <<devVars, m_DeviceOpened, linkVars, capVars, bufVars,
                   mainpc, blk, histVars, crashed>>

\* KniRequests::runRequests: nanosleep, the thread's cancellation point.  A
\* cancelled thread ends here (it is detached: nothing is left of it);
\* otherwise rte_kni_handle_request starts on the handle the thread copied.
RequestSleep(t) ==
    /\ ~crashed
    /\ reqT[t].pc = "sleep"
    /\ IF reqT[t].cancel
       THEN /\ reqT' = [reqT EXCEPT ![t] = NoReqThread]
            /\ UNCHANGED usedReleased
       ELSE /\ reqT' = [reqT EXCEPT ![t].pc = "pump"]
            /\ usedReleased' = (usedReleased \/ m_Device = "released")
    /\ UNCHANGED <<devVars, m_DeviceOpened, linkVars, capVars, m_Requests,
                   bufVars, mainpc, blk, last, nullPrim, crashed>>

\* KniRequests::runRequests: rte_kni_handle_request returns.
RequestPump(t) ==
    /\ ~crashed
    /\ reqT[t].pc = "pump"
    /\ reqT' = [reqT EXCEPT ![t].pc = "sleep"]
    /\ UNCHANGED <<devVars, m_DeviceOpened, linkVars, capVars, m_Requests,
                   bufVars, mainpc, blk, last, histVars, crashed>>

\* ------------------------------------------------------------ destruction
\* KniDevice::~KniDevice: m_Requests.cleanup() and m_Capturing.cleanup() up
\* to the join of the capture thread.
Destroy ==
    /\ Idle
    /\ reqT' = RequestsCleanup(reqT)
    /\ m_Requests' = NoRequests
    /\ \E crash \in BOOLEAN : CleanupCancel(crash)
    /\ mainpc' = "dtorJoin"
    /\ blk' = blk
    /\ UNCHANGED <<devVars, m_DeviceOpened, linkVars, m_Capturing, bufVars,
                   last, histVars>>

\* destroyKniDevice: rte_kni_release gives up a live handle.
ReleasedDevice(kni) == IF kni = "valid" THEN "released" ELSE kni

\* KniDevice::~KniDevice: from the join on: the link is driven down and the
\* handle released.  A request thread still inside rte_kni_handle_request is
\* then working on a released handle.
DestroyJoin ==
    /\ mainpc = "dtorJoin" /\ ~crashed
    /\ JoinDone
    /\ CleanupClear
    /\ \E r \in EngRets : engLink' = EngAfter(m_Device, "DOWN", r)
    /\ m_Device' = ReleasedDevice(m_Device)
    /\ usedReleased' = (usedReleased
                          \/ (m_Device = "valid"
                              /\ \E t \in ReqSlots : reqT[t].pc = "pump"))
    /\ mainpc' = "destroyed"
    /\ blk' = blk
    /\ last' = Call("delete", "-", "-", "-")
    /\ UNCHANGED <<hasUpdateLink, m_DeviceOpened, info, kern, reqVars,
                   bufVars, nullPrim, crashed>>

\* ---------------------------------------------------------- burst receive
\* Array lengths a caller passes to the array variants of receivePackets.
Capacities == {0, 2, MAX_BURST_SIZE + 1}

ReceiveAllowedWhileCapturing == m_DeviceOpened

\* receivePackets, every variant: the device is opened and no capture is
\* running.
ReceiveAllowed == m_DeviceOpened /\ ~isRunning

ArrayRxRequestCapacity(arrLength) == arrLength

\* receivePackets(MBufRawPacket**, uint16_t) and (Packet**, uint16_t): the
\* count asked of rte_kni_rx_burst for an array of arrLength slots.
ArrayRxRequest(arrLength) == MAX_BURST_SIZE

\* The common body of the variants: a burst of up to num buffers, each
\* bound to a slot of the caller's.  The bursts's scratch array has room
\* for `room` buffers: a longer burst writes past it, which is undefined
\* (the process dies or goes on).  A burst on a NULL handle is undefined too.
ReceiveBody(op, arg, num, room) ==
    IF m_Device # "valid"
    THEN /\ nullPrim' = (nullPrim \/ m_Device = "null")
         /\ \E crash \in BOOLEAN : crashed' = crash
         /\ last' = Call(op, arg, 0, 0)
         /\ UNCHANGED bufVars
    ELSE LET n == U16(RxBurst(num))
         IN  /\ ring' = ring - RxBurst(num)
             /\ userHeld' = userHeld + n
             /\ leaked' = leaked + (RxBurst(num) - n)
             /\ last' = Call(op, arg, n, RxBurst(num))
             /\ IF n > room THEN \E crash \in BOOLEAN : crashed' = crash
                            ELSE crashed' = crashed
             /\ UNCHANGED <<pool, nullPrim>>

ReceiveRejected(op, arg) ==
    /\ last' = Call(op, arg, 0, 0)
    /\ UNCHANGED <<bufVars, nullPrim, crashed>>

\* receivePackets(MBufRawPacketVector&)
ReceiveVector ==
    /\ Idle
    /\ IF ~ReceiveAllowed
       THEN ReceiveRejected("receiveVector", "-")
       ELSE ReceiveBody("receiveVector", "-", MAX_BURST_SIZE, MAX_BURST_SIZE)
    /\ UNCHANGED <<devVars, m_DeviceOpened, linkVars, capVars, reqVars,
                   mainpc, blk, usedReleased>>

\* receivePackets(MBufRawPacket**, uint16_t)
ReceiveRawArray ==
    /\ Idle
    /\ \E len \in Capacities, arrNull \in BOOLEAN :
         IF ~ReceiveAllowed \/ arrNull
         THEN ReceiveRejected("receiveRawArray", len)
         ELSE ReceiveBody("receiveRawArray", len, ArrayRxRequest(len), len)
    /\ UNCHANGED <<devVars, m_DeviceOpened, linkVars, capVars, reqVars,
                   mainpc, blk, usedReleased>>

\* receivePackets(Packet**, uint16_t)
ReceivePacketArray ==
    /\ Idle
    /\ \E len \in Capacities :
         IF ~ReceiveAllowed
         THEN ReceiveRejected("receivePacketArray", len)
         ELSE ReceiveBody("receivePacketArray", len, ArrayRxRequest(len), len)
    /\ UNCHANGED <<devVars, m_DeviceOpened, linkVars, capVars, reqVars,
                   mainpc, blk, usedReleased>>

ReceiveOps == {"receiveVector", "receiveRawArray", "receivePacketArray"}
ArrayReceiveOps == {"receiveRawArray", "receivePacketArray"}

\* The kernel side puts a batch of pool buffers on the RX ring.
Arrive ==
    /\ ~crashed
    /\ m_Device = "valid"
    /\ pool >= ArriveBatch
    /\ pool' = pool - ArriveBatch
    /\ ring' = ring + ArriveBatch
    /\ UNCHANGED <<devVars, m_DeviceOpened, linkVars, capVars, reqVars,
                   userHeld, leaked, mainpc, blk, last, histVars, crashed>>

\* The caller drops the slots it received: each gives its buffer back.
UserRelease ==
    /\ ~crashed
    /\ userHeld > 0
    /\ pool' = pool + userHeld
    /\ userHeld' = 0
    /\ UNCHANGED <<devVars, m_DeviceOpened, linkVars, capVars, reqVars,
                   ring, leaked, mainpc, blk, last, histVars, crashed>>

\* --------------------------------------------------------- burst transmit
\* rte_kni_tx_burst(kni, bufs, num): it may take any prefix.
TxBurstRets(num) == 0..num

SendMarksOffByOne(arrLength, packetsSent) ==
    [i \in 1..arrLength |-> (i - 1) > packetsSent]

\* setFreeMbuf(i >= packetsSent) over the arrLength slots (slot i of the
\* source is element i + 1 here).
SendMarks(arrLength, packetsSent) ==
    [i \in 1..arrLength |-> (i - 1) >= packetsSent]

\* The slots as the caller built them: each owns its buffer.
OwnedMarks(arrLength) == [i \in 1..arrLength |-> TRUE]

\* sendPacket(MBufRawPacket&): bool sent = rte_kni_tx_burst(...);
\* setFreeMbuf(!sent).
SendOneMarks(sent) == <<~sent>>

SendRejected(op, n, ret) ==
    /\ last' = Call(op, n, ret, [marks |-> OwnedMarks(n), taken |-> 0])
    /\ UNCHANGED <<nullPrim, crashed>>

\* rte_kni_tx_burst on a NULL handle is undefined: the process dies, or
\* nothing is taken.
SendOnNull(op, n, ret, marks) ==
    /\ nullPrim' = (nullPrim \/ m_Device = "null")
    /\ \E crash \in BOOLEAN : crashed' = crash
    /\ last' = Call(op, n, ret, [marks |-> marks, taken |-> 0])

\* sendPackets(MBufRawPacket**, uint16_t) and sendPackets(MBufRawPacketVector&)
SendBurst(op) ==
    /\ Idle
    /\ \E n \in 0..MaxSend :
         IF ~m_DeviceOpened THEN SendRejected(op, n, 0)
         ELSE IF m_Device # "valid"
         THEN SendOnNull(op, n, 0, SendMarks(n, 0))
         ELSE \E k \in TxBurstRets(n) :
                LET packetsSent == U16(k)
                IN  /\ last' = Call(op, n, packetsSent,
                                    [marks |-> SendMarks(n, packetsSent),
                                     taken |-> k])
                    /\ UNCHANGED <<nullPrim, crashed>>
    /\ UNCHANGED <<devVars, m_DeviceOpened, linkVars, capVars, reqVars,
                   bufVars, mainpc, blk, usedReleased>>

SendRawArray == SendBurst("sendRawArray")

SendRawVector == SendBurst("sendRawVector")

\* sendPacket(MBufRawPacket&)
SendRawPacket ==
    /\ Idle
    /\ IF ~m_DeviceOpened THEN SendRejected("sendRawPacket", 1, FALSE)
       ELSE IF m_Device # "valid"
       THEN SendOnNull("sendRawPacket", 1, FALSE, SendOneMarks(FALSE))
       ELSE \E k \in TxBurstRets(1) :
              LET sent == (k # 0)
              IN  /\ last' = Call("sendRawPacket", 1, sent,
                                  [marks |-> SendOneMarks(sent), taken |-> k])
                  /\ UNCHANGED <<nullPrim, crashed>>
    /\ UNCHANGED <<devVars, m_DeviceOpened, linkVars, capVars, reqVars,
                   bufVars, mainpc, blk, usedReleased>>

SendOps == {"sendRawArray", "sendRawVector", "sendRawPacket"}

\* What an element of the caller's array or vector is: an MBufRawPacket, or
\* another RawPacket that has to be converted.
Kinds == {"native", "foreign"}

\* The arrays and vectors a caller passes to the converting sends.
SendItems == UNION {[1..n -> Kinds] : n \in 0..MaxSend}

AllocatedButLast(kinds, stop) ==
    {i \in 1..Len(kinds) : i + 1 < stop /\ kinds[i] = "foreign"}

\* allocated[0 .. allocated_count - 1] when the conversion loop stopped
\* before element `stop`: the wrappers whose conversion succeeded.
Allocated(kinds, stop) ==
    {i \in 1..Len(kinds) : i < stop /\ kinds[i] = "foreign"}

\* How often each wrapper made by the call is deleted: `delete pkt` for the
\* one whose conversion failed (failAt, 0 for none), and the loop over
\* allocated[] at error_out.
WrapperReleases(kinds, failAt) ==
    LET stop   == IF failAt = 0 THEN Len(kinds) + 1 ELSE failAt
        failed == IF failAt = 0 THEN {} ELSE {failAt}
    IN  [i \in {j \in 1..Len(kinds) : j <= stop /\ kinds[j] = "foreign"} |->
            (IF i \in failed THEN 1 ELSE 0)
              + (IF i \in Allocated(kinds, stop) THEN 1 ELSE 0)]

SendOutcome(why, failAt, marks, taken, txCalled, released) ==
    [why |-> why, failAt |-> failAt, marks |-> marks, taken |-> taken,
     txCalled |-> txCalled, released |-> released]

\* sendPackets(Packet**, uint16_t) and sendPackets(RawPacketVector&)
SendConverted(op) ==
    /\ Idle
    /\ \E kinds \in SendItems :
         LET n == Len(kinds)
         IN  IF ~m_DeviceOpened
             THEN /\ last' = Call(op, kinds, 0,
                                  SendOutcome("notOpened", 0, OwnedMarks(n),
                                              0, FALSE, <<>>))
                  /\ UNCHANGED <<nullPrim, crashed>>
             ELSE \E failAt \in {0} \cup {i \in 1..n : kinds[i] = "foreign"} :
                    IF failAt # 0
                    THEN /\ last' = Call(op, kinds, 0,
                                         SendOutcome("convFailed", failAt,
                                           OwnedMarks(n), 0, FALSE,
                                           WrapperReleases(kinds, failAt)))
                         /\ UNCHANGED <<nullPrim, crashed>>
                    ELSE IF m_Device # "valid"
                    THEN /\ nullPrim' = (nullPrim \/ m_Device = "null")
                         /\ \E crash \in BOOLEAN : crashed' = crash
                         /\ last' = Call(op, kinds, 0,
                                         SendOutcome("sent", 0, SendMarks(n, 0),
                                           0, TRUE, WrapperReleases(kinds, 0)))
                    ELSE \E k \in TxBurstRets(n) :
                           LET packetsSent == U16(k)
                           IN  /\ last' = Call(op, kinds, packetsSent,
                                    SendOutcome("sent", 0,
                                      SendMarks(n, packetsSent), k, TRUE,
                                      WrapperReleases(kinds, 0)))
                               /\ UNCHANGED <<nullPrim, crashed>>
    /\ UNCHANGED <<devVars, m_DeviceOpened, linkVars, capVars, reqVars,
                   bufVars, mainpc, blk, usedReleased>>

SendPacketArray == SendConverted("sendPacketArray")

SendRawPacketVector == SendConverted("sendRawPacketVector")

ConvertingSendOps == {"sendPacketArray", "sendRawPacketVector"}

\* ------------------------------------------------------- attribute bridge
Macs == {"zero", "A", "B"}
Mtus == {1500, 9000}
PromiscModes == {"ENABLE", "DISABLE", "OTHER"}
InfoStates == {"CACHED", "QUERY"}

\* MacAddress::isValid
MacIsValid(mac) == mac # "zero"

LinkOfFlagsInverted(up) == IF up THEN "DOWN" ELSE "UP"

\* KniLinkState(req.ifr_flags & IFF_UP)
LinkOfFlags(up) == IF up THEN "UP" ELSE "DOWN"

\* (req.ifr_flags & IFF_PROMISC) ? PROMISC_ENABLE : PROMISC_DISABLE
PromiscOfFlags(p) == IF p THEN "ENABLE" ELSE "DISABLE"

attrFrame == <<devVars, m_DeviceOpened, engLink, capVars, reqVars, bufVars,
               mainpc, blk, histVars, crashed>>

\* The getters: what became of the kernel request on the path that returns
\* the cached value: none was made (INFO_CACHED), or makeRequest failed.
RequestMade(state) == IF state = "CACHED" THEN "none" ELSE "failed"

\* An administrator reconfigures the kernel's interface (ip link set ...).
KernelAdmin ==
    /\ ~crashed
    /\ \/ kern' = [kern EXCEPT !.up = ~kern.up]
       \/ kern' = [kern EXCEPT !.promisc = ~kern.promisc]
       \/ \E mac \in Macs \ {"zero", kern.mac} : kern' = [kern EXCEPT !.mac = mac]
       \/ \E mtu \in Mtus \ {kern.mtu} : kern' = [kern EXCEPT !.mtu = mtu]
    /\ UNCHANGED <<attrFrame, info, last>>

\* KniDevice::getLinkState
GetLinkState ==
    /\ Idle
    /\ \E state \in InfoStates, ok \in BOOLEAN :
         IF state = "CACHED" \/ ~ok
         THEN /\ last' = Call("getLinkState", state, info.link, RequestMade(state))
              /\ info' = info
         ELSE /\ info' = [info EXCEPT !.link = LinkOfFlags(kern.up)]
              /\ last' = Call("getLinkState", state, LinkOfFlags(kern.up), "ok")
    /\ UNCHANGED <<attrFrame, kern>>

\* KniDevice::getMacAddress
GetMacAddress ==
    /\ Idle
    /\ \E state \in InfoStates, ok \in BOOLEAN :
         IF state = "CACHED" \/ ~ok
         THEN /\ last' = Call("getMacAddress", state, info.mac, RequestMade(state))
              /\ info' = info
         ELSE /\ info' = [info EXCEPT !.mac = kern.mac]
              /\ last' = Call("getMacAddress", state, kern.mac, "ok")
    /\ UNCHANGED <<attrFrame, kern>>

\* KniDevice::getMtu
GetMtu ==
    /\ Idle
    /\ \E state \in InfoStates, ok \in BOOLEAN :
         IF state = "CACHED" \/ ~ok
         THEN /\ last' = Call("getMtu", state, info.mtu, RequestMade(state))
              /\ info' = info
         ELSE /\ info' = [info EXCEPT !.mtu = U16(kern.mtu)]
              /\ last' = Call("getMtu", state, U16(kern.mtu), "ok")
    /\ UNCHANGED <<attrFrame, kern>>

\* KniDevice::getPromiscuous
GetPromiscuous ==
    /\ Idle
    /\ \E state \in InfoStates, ok \in BOOLEAN :
         IF state = "CACHED" \/ ~ok
         THEN /\ last' = Call("getPromiscuous", state, info.promisc, RequestMade(state))
              /\ info' = info
         ELSE /\ info' = [info EXCEPT !.promisc = PromiscOfFlags(kern.promisc)]
              /\ last' = Call("getPromiscuous", state,
                              PromiscOfFlags(kern.promisc), "ok")
    /\ UNCHANGED <<attrFrame, kern>>

\* The read-modify-write of one bit of the FLAGS word: whether the call
\* gets to the cache update, given that the read and the write succeed.
FlagsWritten(want, have, readOk, writeOk) ==
    readOk /\ (want # have => writeOk)

\* KniDevice::setLinkState: the cached link after the call.
SetLinkCache(state, done) == IF done THEN state ELSE info.link

\* KniDevice::setLinkState
SetLinkState ==
    /\ Idle
    /\ \E state \in LinkStates, readOk \in BOOLEAN, writeOk \in BOOLEAN :
         LET valid == (state = "DOWN" \/ state = "UP")
             done  == valid /\ FlagsWritten(state = "UP", kern.up, readOk, writeOk)
         IN  /\ kern' = IF done THEN [kern EXCEPT !.up = (state = "UP")] ELSE kern
             /\ info' = [info EXCEPT !.link = SetLinkCache(state, done)]
             /\ last' = Call("setLinkState", state, done, "-")
    /\ UNCHANGED attrFrame

\* KniDevice::setMacAddress: the cached MAC after the call.
SetMacCache(mac, done) == IF done THEN mac ELSE info.mac

\* KniDevice::setMacAddress
SetMacAddress ==
    /\ Idle
    /\ \E mac \in Macs, writeOk \in BOOLEAN :
         LET done == MacIsValid(mac) /\ writeOk
         IN  /\ kern' = IF done THEN [kern EXCEPT !.mac = mac] ELSE kern
             /\ info' = [info EXCEPT !.mac = SetMacCache(mac, done)]
             /\ last' = Call("setMacAddress", mac, done, "-")
    /\ UNCHANGED attrFrame

SetMtuCacheEager(mtu, done) == mtu

\* KniDevice::setMtu: the cached MTU after the call.
SetMtuCache(mtu, done) == IF done THEN mtu ELSE info.mtu

\* KniDevice::setMtu
SetMtu ==
    /\ Idle
    /\ \E mtu \in Mtus, writeOk \in BOOLEAN :
         /\ kern' = IF writeOk THEN [kern EXCEPT !.mtu = mtu] ELSE kern
         /\ info' = [info EXCEPT !.mtu = SetMtuCache(mtu, writeOk)]
         /\ last' = Call("setMtu", mtu, writeOk, "-")
    /\ UNCHANGED attrFrame

\* KniDevice::setPromiscuous: the cached mode after the call.
SetPromiscCache(mode, done) == IF done THEN mode ELSE info.promisc

\* KniDevice::setPromiscuous
SetPromiscuous ==
    /\ Idle
    /\ \E mode \in PromiscModes, readOk \in BOOLEAN, writeOk \in BOOLEAN :
         LET valid == (mode = "DISABLE" \/ mode = "ENABLE")
             done  == valid /\ FlagsWritten(mode = "ENABLE", kern.promisc,
                                            readOk, writeOk)
         IN  /\ kern' = IF done THEN [kern EXCEPT !.promisc = (mode = "ENABLE")]
                                ELSE kern
             /\ info' = [info EXCEPT !.promisc = SetPromiscCache(mode, done)]
             /\ last' = Call("setPromiscuous", mode, done, "-")
    /\ UNCHANGED attrFrame

\* ------------------------------------------------------------------ specs
\* The device with its capture thread and the direct receive operations.
Next ==
    \/ Open
    \/ UpdateLinkState
    \/ Close
    \/ CloseJoin
    \/ StartCapture
    \/ StopCapture
    \/ StopCaptureJoin
    \/ \E t \in CapSlots : CaptureBurst(t)
    \/ \E t \in CapSlots : CaptureCallbackReturn(t)
    \/ \E t \in CapSlots : CaptureTestCancel(t)
    \/ Destroy
    \/ DestroyJoin
    \/ ReceiveVector
    \/ ReceiveRawArray
    \/ ReceivePacketArray
    \/ Arrive
    \/ UserRelease
    \/ StartCaptureBlockingMode
    \/ BlockingIter
    \/ BlockingTick

Spec == Init /\ [][Next]_vars

\* Every capture thread that can take a step does so in the end (the
\* scheduler runs it, and the user's callback returns), and a join that can
\* return does.
FairSpec ==
    /\ Spec
    /\ \A t \in CapSlots :
          WF_vars(CaptureBurst(t) \/ CaptureCallbackReturn(t)
                    \/ CaptureTestCancel(t))
    /\ WF_vars(StopCaptureJoin \/ CloseJoin \/ DestroyJoin)

\* The device with its request-handler threads.
NextRequests ==
    \/ Open
    \/ StartRequestHandlerThread
    \/ StopRequestHandlerThread
    \/ \E t \in ReqSlots : RequestSleep(t)
    \/ \E t \in ReqSlots : RequestPump(t)
    \/ Destroy
    \/ DestroyJoin

SpecRequests == Init /\ [][NextRequests]_vars

\* The device with both of its worker threads.
NextWorkers ==
    \/ Open
    \/ StartCapture
    \/ StopCapture
    \/ StopCaptureJoin
    \/ \E t \in CapSlots : CaptureBurst(t)
    \/ \E t \in CapSlots : CaptureCallbackReturn(t)
    \/ \E t \in CapSlots : CaptureTestCancel(t)
    \/ StartRequestHandlerThread
    \/ StopRequestHandlerThread
    \/ \E t \in ReqSlots : RequestSleep(t)
    \/ \E t \in ReqSlots : RequestPump(t)
    \/ Arrive

SpecWorkers == Init /\ [][NextWorkers]_vars

\* The device with its transmit operations.
NextSend ==
    \/ Open
    \/ Close
    \/ CloseJoin
    \/ SendRawArray
    \/ SendRawVector
    \/ SendRawPacket
    \/ SendPacketArray
    \/ SendRawPacketVector

SpecSend == Init /\ [][NextSend]_vars

\* The device with its attribute cache.
NextAttrs ==
    \/ Open
    \/ UpdateLinkState
    \/ GetLinkState
    \/ GetMacAddress
    \/ GetMtu
    \/ GetPromiscuous
    \/ SetLinkState
    \/ SetMacAddress
    \/ SetMtu
    \/ SetPromiscuous

SpecAttrs == Init /\ [][NextAttrs]_vars

\* The getters against a kernel interface that changes under them.
NextQuery ==
    \/ GetLinkState
    \/ GetMacAddress
    \/ GetMtu
    \/ GetPromiscuous
    \/ KernelAdmin

SpecQuery == Init /\ [][NextQuery]_vars

\* The device through open and close, with every operation that depends on
\* the device being opened.
NextClose ==
    \/ Open
    \/ Close
    \/ CloseJoin
    \/ StartCapture
    \/ \E t \in CapSlots : CaptureBurst(t)
    \/ \E t \in CapSlots : CaptureCallbackReturn(t)
    \/ \E t \in CapSlots : CaptureTestCancel(t)
    \/ StartCaptureBlockingMode
    \/ BlockingIter
    \/ BlockingTick
    \/ ReceiveVector
    \/ ReceiveRawArray
    \/ ReceivePacketArray
    \/ SendRawArray
    \/ SendRawVector
    \/ SendRawPacket
    \/ Arrive
    \/ UserRelease

SpecClose == Init /\ [][NextClose]_vars

\* ================================================================ claims
\* The count a send reported: sendPacket reports a bool.
SentCount(call) ==
    IF call.op = "sendRawPacket" THEN (IF call.ret THEN 1 ELSE 0) ELSE call.ret

\* C1: after a send that returned sent, the slots at indices below sent
\* are marked engine-owned (freeOnDrop false), the slots from sent on are
\* marked caller-owned (freeOnDrop true), and no buffer the engine took is
\* also released by its slot.
C1_HandoffLaw ==
    last.op \in SendOps =>
        LET n     == last.arg
            sent  == SentCount(last)
            marks == last.aux.marks
        IN  /\ Len(marks) = n
            /\ sent <= n
            /\ \A i \in 1..n : (i - 1 < sent) => ~marks[i]
            /\ \A i \in 1..n : (i - 1 >= sent) => marks[i]
            /\ \A i \in 1..n : ~(marks[i] /\ i - 1 < last.aux.taken)
            /\ \A i \in 1..n : marks[i] \/ i - 1 < last.aux.taken

\* C1: a partial send happened: the engine took 2 of 3 buffers.
C1_Witness ==
    /\ last.op = "sendRawArray" /\ last.arg = 3 /\ last.ret = 2
    /\ m_DeviceOpened

\* A step of one of the receivePackets variants.
ReceiveStep == ReceiveVector \/ ReceiveRawArray \/ ReceivePacketArray

\* C2: while a capture worker is recorded for the device, every variant of
\* receivePackets returns 0 and takes nothing from the RX ring.
C2_ReceiveExcludedByCapture ==
    [][(m_Capturing.thread = "obj" /\ ReceiveStep)
          => (last'.ret = 0 /\ ring' = ring /\ userHeld' = userHeld)]_vars

\* C2: a receive was turned away on an opened device whose capture thread
\* is running, with buffers waiting on the ring.
C2_Witness ==
    /\ last.op \in ReceiveOps /\ last.ret = 0
    /\ m_DeviceOpened /\ m_Device = "valid"
    /\ m_Capturing.thread = "obj" /\ CapAlive(m_Capturing.tid)
    /\ ring > 0

\* The user thread is inside close() or the destructor, at the join.
Joining == mainpc \in {"closeJoin", "dtorJoin"}

\* C3: closing or destroying a device whose capture thread is running
\* always returns (it never waits for ever on the join while the process
\* lives), and it returns only after the capture thread has terminated:
\* once the handle is released, and whenever no capture thread is recorded,
\* no capture thread is left to burst or to call back.
C3_DestructionSafety ==
    /\ [](mainpc = "destroyed" =>
            /\ m_Capturing.thread = "null"
            /\ \A t \in CapSlots : ~CapAlive(t))
    /\ []((mainpc = "idle" /\ m_Capturing.thread = "null") =>
            \A t \in CapSlots : ~CapAlive(t))
    /\ (Joining ~> (mainpc \in {"idle", "destroyed"} \/ crashed))

\* C3: the destructor waits at the join while the cancelled capture thread
\* is still inside the user's callback, holding buffers.
C3_Witness ==
    /\ mainpc = "dtorJoin" /\ ~crashed /\ m_Device = "valid"
    /\ m_Capturing.thread = "obj"
    /\ capT[m_Capturing.tid].pc = "cb"
    /\ capT[m_Capturing.tid].cancel
    /\ capT[m_Capturing.tid].held > 0

\* C4: an array variant of receivePackets called with an array of
\* `capacity` slots returns at most capacity buffers (it asks the engine
\* for at most min(capacity, 64)), so it writes no slot past the array.
C4_ReceiveWithinCapacity ==
    last.op \in ArrayReceiveOps =>
        (last.ret <= last.arg /\ last.aux <= Min(last.arg, MAX_BURST_SIZE))

\* C5: open() on a device that is not opened returns false and leaves the
\* device not opened when its updateLinkState(LINK_UP) returned ERROR, and
\* returns true with the device opened otherwise.
C5_OpenFollowsLinkUpdate ==
    (last.op = "open" /\ last.aux # "-") =>
        IF last.aux = "ERROR"
        THEN last.ret = FALSE /\ ~m_DeviceOpened
        ELSE last.ret = TRUE /\ m_DeviceOpened

\* The value an operation returns when it does nothing.
InertReturn(call) ==
    CASE call.op = "open" -> call.ret = FALSE
      [] call.op = "startCapture" -> call.ret = FALSE
      [] call.op = "updateLinkState" -> call.ret = "ERROR"
      [] call.op \in ReceiveOps -> call.ret = 0
      [] call.op \in SendOps -> SentCount(call) = 0
      [] OTHER -> TRUE

\* C6: on a device whose construction failed (NULL handle) every operation
\* returns its zero, false or ERROR value and no burst primitive is ever
\* called on the NULL handle.
C6_FailedConstructionInert ==
    m_Device = "null" => (InertReturn(last) /\ ~nullPrim /\ ~m_DeviceOpened)

\* C7: after a startCapture whose thread could not be spawned, no capture
\* worker is recorded.
C7_SpawnFailureRollsBack ==
    (last.op = "startCapture" /\ last.aux = "spawnFailed") =>
        (last.ret = FALSE /\ m_Capturing.thread = "null")

AliveCaptureThreads == {t \in CapSlots : CapAlive(t)}

\* C8: at most one capture thread is alive at any time, and a startCapture
\* on a device that records a capture worker returns false, spawns nothing
\* and changes nothing of the capture state.
C8_AtMostOneCaptureWorker ==
    /\ [](Cardinality(AliveCaptureThreads) <= 1)
    /\ [][(m_Capturing.thread # "null" /\ StartCapture)
             => (last'.ret = FALSE /\ UNCHANGED capVars)]_vars

\* C8: a second startCapture was rejected while the first thread runs.
C8_Witness ==
    /\ last.op = "startCapture" /\ last.ret = FALSE /\ last.aux = "rejected"
    /\ m_DeviceOpened /\ m_Device = "valid"
    /\ m_Capturing.thread = "obj"
    /\ Cardinality(AliveCaptureThreads) = 1

\* Request threads that are inside rte_kni_handle_request or will call it
\* again (a cancelled thread at its nanosleep ends there).
AliveRequestThreads ==
    {t \in ReqSlots : reqT[t].pc = "pump"
                        \/ (reqT[t].pc = "sleep" /\ ~reqT[t].cancel)}

\* C9: at most one request-handler thread is alive and pumping at any
\* time, also right after a stop followed by a new start.
C9_AtMostOneRequestWorker == Cardinality(AliveRequestThreads) <= 1

InfoFields == {"link", "mac", "mtu", "promisc"}

\* What a set<attr> step may do to the cache: the attribute takes the
\* requested value when the call returned true and keeps its value when it
\* returned false; the other attributes keep theirs.
CacheAfterSet(attr) ==
    /\ last'.ret = TRUE => info'[attr] = last'.arg
    /\ last'.ret = FALSE => info'[attr] = info[attr]
    /\ \A other \in InfoFields \ {attr} : info'[other] = info[other]

\* C10: for link, MAC, MTU and promiscuous mode, after set<attr>(v) returned
\* true the cached getter returns v, after it returned false the cached
\* getter returns what it returned before, and the other attributes' caches
\* are unchanged either way.
C10_CacheConsistentOnSet ==
    [][/\ SetLinkState => CacheAfterSet("link")
       /\ SetMacAddress => CacheAfterSet("mac")
       /\ SetMtu => CacheAfterSet("mtu")
       /\ SetPromiscuous => CacheAfterSet("promisc")]_vars

\* C10: a setMtu failed at the kernel write and the cache kept another
\* value than the one asked for.
C10_Witness ==
    /\ last.op = "setMtu" /\ last.ret = FALSE
    /\ info.mtu # last.arg

\* What the kernel holds for an attribute, in the getter's terms.
KernelValue(attr) ==
    CASE attr = "link" -> (IF kern.up THEN "UP" ELSE "DOWN")
      [] attr = "mac" -> kern.mac
      [] attr = "mtu" -> kern.mtu
      [] attr = "promisc" -> (IF kern.promisc THEN "ENABLE" ELSE "DISABLE")

\* What a get<attr> step may do, by the request it made (last'.aux).
GetterFallback(attr) ==
    /\ last'.arg = "CACHED" => last'.aux = "none"
    /\ last'.arg = "QUERY" => last'.aux \in {"ok", "failed"}
    /\ last'.aux \in {"none", "failed"} =>
          (last'.ret = info[attr] /\ info' = info)
    /\ last'.aux = "ok" =>
          /\ last'.ret = KernelValue(attr)
          /\ info'[attr] = KernelValue(attr)
          /\ \A other \in InfoFields \ {attr} : info'[other] = info[other]
    /\ kern' = kern

\* C11: for each attribute, a CACHED get makes no kernel request and returns
\* the cache; a QUERY get whose request succeeds stores the kernel's value in
\* the cache and returns it; a QUERY get whose request fails returns the
\* cached value and leaves the cache unchanged.
C11_GetterFallback ==
    [][/\ GetLinkState => GetterFallback("link")
       /\ GetMacAddress => GetterFallback("mac")
       /\ GetMtu => GetterFallback("mtu")
       /\ GetPromiscuous => GetterFallback("promisc")]_vars

\* C11: the cache holds MTU 1500, the kernel another MTU, and a getMtu(QUERY)
\* whose request failed returned 1500 and left the cache at 1500.
C11_Witness ==
    /\ last.op = "getMtu" /\ last.arg = "QUERY" /\ last.aux = "failed"
    /\ last.ret = 1500 /\ info.mtu = 1500 /\ kern.mtu # 1500

\* The device state a no-op leaves alone: everything but the record of the
\* call.
deviceState == <<m_Device, hasUpdateLink, m_DeviceOpened, info, kern, engLink,
                 m_Capturing, capT, m_Requests, reqT, ring, pool, userHeld,
                 leaked, mainpc, blk, nullPrim, usedReleased, crashed>>

\* C12: stopCapture() on a recorded worker, looping or already exited,
\* returns (while the process lives), and when it returns no capture thread
\* is recorded or alive, so the callback is not invoked again, and a
\* startCapture on the opened device is accepted again; a stopCapture() with
\* no worker recorded changes no state.
C12_StopCaptureFinal ==
    /\ [][StopCaptureJoin =>
            /\ m_Capturing' = NoCapturing
            /\ \A t \in CapSlots : capT'[t].pc \notin {"burst", "cb", "tail"}
            /\ FreeCapSlots' # {}
            /\ (m_DeviceOpened' => ~StartCaptureRejected')]_vars
    /\ [][(StartCapture /\ m_DeviceOpened /\ m_Capturing.thread = "null"
             /\ last'.aux # "spawnFailed") => last'.ret = TRUE]_vars
    /\ [][(StopCapture /\ m_Capturing.thread = "null")
             => UNCHANGED deviceState]_vars
    /\ (mainpc = "stopJoin" ~> (mainpc = "idle" \/ crashed))

\* C12: stopCapture() has returned from joining a worker that had already
\* exited (its callback returned false); the device is still opened and no
\* worker is recorded or alive.
C12_Witness ==
    /\ last.op = "stopCapture" /\ last.aux = "stoppedExited"
    /\ mainpc = "idle" /\ ~crashed
    /\ m_DeviceOpened /\ m_Device = "valid"
    /\ m_Capturing = NoCapturing
    /\ \A t \in CapSlots : ~CapAlive(t)

\* C13: startCaptureBlockingMode returns 0 exactly when a precondition
\* fails (device not opened, capture worker recorded, or null callback), and
\* then takes nothing from the RX ring; otherwise it enters its loop, from
\* which it returns 1 exactly when a callback invocation returned false, and
\* -1 only when timeout > 0 and the sampled time is past start + timeout.
C13_BlockingOutcome ==
    /\ [][StartCaptureBlockingMode =>
            LET failed == \/ ~m_DeviceOpened
                          \/ m_Capturing.thread # "null"
                          \/ last'.arg.cb = "null"
            IN  /\ failed => /\ last'.aux # "running"
                             /\ last'.ret = 0
                             /\ mainpc' = "idle"
                             /\ UNCHANGED bufVars
                /\ ~failed => /\ last'.aux = "running"
                              /\ mainpc' = "blocking"]_vars
    /\ [][(BlockingIter /\ mainpc' = "idle") =>
            /\ last'.ret \in {1, -1}
            /\ last'.ret = 1 <=> last'.aux = "callbackFalse"
            /\ last'.ret = 1 => ring' < ring
            /\ last'.ret = -1 =>
                 /\ blk.timeout > 0
                 /\ blk.cur > blk.start + blk.timeout
                 /\ UNCHANGED bufVars]_vars

\* C13: a blocking capture with a timeout of 2 seconds on a live, opened
\* device has returned -1.
C13_Witness ==
    /\ last.op = "captureBlocking" /\ last.aux = "deadline"
    /\ last.ret = -1 /\ last.arg.timeout = 2
    /\ m_DeviceOpened /\ m_Device = "valid" /\ mainpc = "idle"

\* C14: in a send over items that are not MBufRawPackets, every wrapper the
\* call made is deleted exactly once before it returns, whatever the engine
\* took; when the conversion of item k fails the call returns 0, does not
\* call rte_kni_tx_burst, deletes the wrappers made for the items up to k,
\* and leaves the ownership marks of the caller's buffers as they were.
C14_ConversionsReleased ==
    last.op \in ConvertingSendOps =>
        LET kinds   == last.arg
            out     == last.aux
            foreign == {i \in 1..Len(kinds) : kinds[i] = "foreign"}
        IN  /\ \A i \in DOMAIN out.released : out.released[i] = 1
            /\ out.why = "sent" =>
                 /\ DOMAIN out.released = foreign
                 /\ out.txCalled
            /\ out.why = "convFailed" =>
                 /\ last.ret = 0
                 /\ ~out.txCalled /\ out.taken = 0
                 /\ DOMAIN out.released = {i \in foreign : i <= out.failAt}
                 /\ out.marks = [i \in 1..Len(kinds) |-> TRUE]
            /\ out.why = "notOpened" => DOMAIN out.released = {}

\* C14: the third item's conversion failed after the first item had been
\* converted and the second was an MBufRawPacket of the caller's.
C14_Witness ==
    /\ last.op = "sendPacketArray"
    /\ last.arg = <<"foreign", "native", "foreign">>
    /\ last.aux.why = "convFailed" /\ last.aux.failAt = 3
    /\ m_DeviceOpened /\ m_Device = "valid"

\* A step of one of the sends over MBufRawPackets.
RawSendStep == SendRawArray \/ SendRawVector \/ SendRawPacket

\* C15: when close() returns, from any state, the capture worker it found
\* has terminated before the link is driven down, the device is not opened
\* and no capture worker is recorded or alive; while the device is not
\* opened every receive and send returns 0 and moves no buffer,
\* startCapture returns false, startCaptureBlockingMode returns 0, and an
\* open() is not turned away as already opened; only a successful open()
\* makes the device opened again.
C15_ClosePostcondition ==
    /\ [][CloseJoin =>
            /\ \A t \in CapSlots : ~CapAlive(t)
            /\ ~m_DeviceOpened'
            /\ m_Capturing'.thread = "null"
            /\ \A t \in CapSlots : capT'[t].pc \notin {"burst", "cb", "tail"}
            /\ info'.link \in {info.link, "DOWN"}]_vars
    /\ [][~m_DeviceOpened =>
            /\ ReceiveStep => (last'.ret = 0 /\ UNCHANGED bufVars)
            /\ RawSendStep => (SentCount(last') = 0 /\ last'.aux.taken = 0)
            /\ StartCapture => (last'.ret = FALSE /\ UNCHANGED capVars)
            /\ StartCaptureBlockingMode =>
                 (mainpc' = "idle" /\ last'.ret = 0 /\ UNCHANGED bufVars)
            /\ Open => last'.aux # "-"
            /\ m_DeviceOpened' => (Open /\ last'.ret = TRUE)]_vars

\* C15: close() has returned on a device that was capturing; buffers wait
\* on the RX ring of the closed device.
C15_Witness ==
    /\ last.op = "close" /\ last.aux = "stoppedCapture"
    /\ mainpc = "idle" /\ ~crashed
    /\ m_Device = "valid" /\ ~m_DeviceOpened
    /\ ring > 0

\* The engine's carrier state as a link state.
EngineLink == IF engLink = 1 THEN "UP" ELSE "DOWN"

\* C16: updateLinkState(state) returns the engine's previous link state, or
\* ERROR or NOT_SUPPORTED; the cached link becomes state when the returned
\* value is neither ERROR nor NOT_SUPPORTED and is unchanged otherwise, which
\* is the case for a NULL handle, a state outside {UP, DOWN}, an engine error
\* and an engine without the link-update primitive; no other cached
\* attribute changes.
C16_UpdateLinkState ==
    [][UpdateLinkState =>
         LET state == last'.arg
             old   == last'.ret
         IN  /\ old \in {EngineLink, "ERROR", "NOT_SUPPORTED"}
             /\ old \notin {"ERROR", "NOT_SUPPORTED"} => info'.link = state
             /\ old \in {"ERROR", "NOT_SUPPORTED"} => info'.link = info.link
             /\ m_Device = "null" => old = "ERROR"
             /\ state \notin {"UP", "DOWN"} => old = "ERROR"
             /\ (m_Device = "valid" /\ state \in {"UP", "DOWN"}
                   /\ ~hasUpdateLink) => old = "NOT_SUPPORTED"
             /\ \A other \in InfoFields \ {"link"} : info'[other] = info[other]]_vars

\* C16: updateLinkState(DOWN) returned UP, the engine's previous state, and
\* the cached link is DOWN.
C16_Witness ==
    /\ last.op = "updateLinkState" /\ last.arg = "DOWN" /\ last.ret = "UP"
    /\ info.link = "DOWN" /\ engLink = 0
    /\ m_Device = "valid" /\ hasUpdateLink

\* C17: open() on an opened device returns false and changes nothing of the
\* device: it stays opened, the cached link and the engine's link are left
\* alone (no link update is issued), and the workers are untouched.
C17_OpenIdempotent ==
    [][(Open /\ m_DeviceOpened) =>
          /\ last'.ret = FALSE
          /\ last'.aux = "-"
          /\ UNCHANGED deviceState]_vars

\* C17: a second open() was refused on an opened device whose capture
\* thread is running and whose cached link is DOWN.
C17_Witness ==
    /\ last.op = "open" /\ last.ret = FALSE
    /\ m_DeviceOpened /\ m_Device = "valid"
    /\ info.link = "DOWN" /\ engLink = 0
    /\ m_Capturing.thread = "obj" /\ CapAlive(m_Capturing.tid)

\* C18: no step takes more than 64 buffers from the RX ring at once: no
\* variant of receivePackets returns or obtains more than 64, whatever the
\* array length and the ring's occupancy, and no pass of the capture thread
\* or of the blocking capture holds more than 64.
C18_BurstCap ==
    /\ [][ring - ring' <= MAX_BURST_SIZE]_vars
    /\ [](last.op \in ReceiveOps =>
            (last.ret <= MAX_BURST_SIZE /\ last.aux <= MAX_BURST_SIZE))
    /\ [](\A t \in CapSlots : capT[t].held <= MAX_BURST_SIZE)

\* C18: a receive into an array of 65 slots, with 65 buffers waiting,
\* returned 64 and left one on the ring.
C18_Witness ==
    /\ last.op = "receiveRawArray" /\ last.arg = MAX_BURST_SIZE + 1
    /\ last.ret = MAX_BURST_SIZE
    /\ ring = 1 /\ userHeld = MAX_BURST_SIZE

\* C19: once stopRequestHandlerThread() has returned no request thread is
\* inside rte_kni_handle_request, and no request thread ever runs
\* rte_kni_handle_request on a handle the destructor has released.
C19_RequestWorkerWithinHandle ==
    /\ ~usedReleased
    /\ (mainpc = "idle" /\ last.op = "stopRequests") =>
            \A t \in ReqSlots : reqT[t].pc # "pump"

\* The buffers bound to the stack slots of the capture threads 1..t.
RECURSIVE HeldUpTo(_)
HeldUpTo(t) == IF t = 0 THEN 0 ELSE capT[t].held + HeldUpTo(t - 1)

\* C20: in every reachable state, whatever callback startCapture was given
\* (a null callback included), every buffer of the pool is in the pool, on
\* the RX ring or bound to a slot: pool + ring + slot-held equals the pool's
\* capacity.
C20_BufferConservation ==
    pool + ring + userHeld + HeldUpTo(MaxCapThreads) = PoolSize

\* C21: with timeout > 0, every pass of the loop of startCaptureBlockingMode
\* that takes buffers from the RX ring (and so invokes the callback) has
\* sampled a time now <= start + timeout; and once a pass has sampled a time
\* past the deadline, the next pass takes nothing from the ring, invokes no
\* callback and returns -1.
C21_BlockingDeadline ==
    /\ [][(BlockingIter /\ blk.timeout > 0 /\ ring' < ring) =>
            blk.now <= blk.start + blk.timeout]_vars
    /\ [][(BlockingIter /\ blk.timeout > 0
             /\ blk.cur > blk.start + blk.timeout) =>
            /\ UNCHANGED bufVars
            /\ mainpc' = "idle"
            /\ last'.ret = -1]_vars

\* C22: the capture worker observes a pending cancellation only at the tail
\* of a loop iteration: a worker leaves its loop either at the tail with a
\* cancellation pending, or because its callback returned false, and then
\* the buffers of the burst have gone back to the pool; a worker that is at
\* the burst goes on to the callback or to the tail even when a cancellation
\* is pending, and a worker that is gone holds no buffer.  The request worker
\* ends only at its sleep with a cancellation pending, never in a pump.
C22_CancellationBetweenBursts ==
    /\ [][\A t \in CapSlots :
            /\ (CapAlive(t) /\ capT'[t].pc = "exited") =>
                 \/ capT[t].pc = "tail" /\ capT[t].cancel /\ capT[t].held = 0
                 \/ /\ capT[t].pc = "cb"
                    /\ capT'[t].held = 0
                    /\ pool' = pool + capT[t].held
            /\ (capT[t].pc = "burst" /\ capT'[t] # capT[t]
                  /\ capT'[t].pc # "none") =>
                 \/ capT'[t].pc \in {"cb", "tail"}
                 \/ capT'[t] = [capT[t] EXCEPT !.cancel = TRUE]]_vars
    /\ [][\A t \in ReqSlots :
            (reqT[t].pc \in {"sleep", "pump"} /\ reqT'[t].pc = "none") =>
                reqT[t].pc = "sleep" /\ reqT[t].cancel]_vars
    /\ [](\A t \in CapSlots : capT[t].pc \in {"exited", "none"} =>
                                 capT[t].held = 0)

\* C22: a cancellation is pending on a capture worker that is inside the
\* callback of a burst of 64 packets, and on a request worker that is inside
\* rte_kni_handle_request.
C22_Witness ==
    /\ \E t \in CapSlots : /\ capT[t].pc = "cb" /\ capT[t].cancel
                           /\ capT[t].held = MAX_BURST_SIZE
    /\ \E t \in ReqSlots : reqT[t].pc = "pump" /\ reqT[t].cancel

\* C23: when every capture worker that can step does so in the end (its
\* callback returns) and a join that can return does, (a) a worker on which
\* a cancellation was requested by stopCapture, close or the destructor
\* terminates in the end, and the join returns, whether or not packets go on
\* arriving (a process that died counts as terminated); (b) a worker whose
\* callback returned false has left its loop: it has given its buffers back,
\* and it takes no further step of runCapture: no burst, no callback.
C23_CaptureWorkerTerminates ==
    /\ \A t \in CapSlots :
          (CapAlive(t) /\ capT[t].cancel) ~> (~CapAlive(t) \/ crashed)
    /\ ((mainpc \in {"stopJoin", "closeJoin", "dtorJoin"})
          ~> (mainpc \in {"idle", "destroyed"} \/ crashed))
    /\ [][\A t \in CapSlots :
            /\ (capT[t].pc = "cb" /\ capT'[t].pc # "cb") =>
                 /\ capT'[t].pc \in {"tail", "exited"}
                 /\ capT'[t].held = 0
                 /\ pool' = pool + capT[t].held
            /\ capT[t].pc = "exited" =>
                 /\ capT'[t].pc \in {"exited", "none"}
                 /\ capT'[t].held = 0]_vars
    /\ [](\A t \in CapSlots : capT[t].pc = "exited" =>
            ~ENABLED (CaptureBurst(t) \/ CaptureCallbackReturn(t)
                        \/ CaptureTestCancel(t)))

\* C23: a cancelled capture worker has terminated while packets are still
\* waiting in the RX ring, and the join of stopCapture has not returned yet.
C23_Witness ==
    /\ mainpc = "stopJoin" /\ ~crashed /\ m_Device = "valid"
    /\ m_Capturing.thread = "obj"
    /\ capT[m_Capturing.tid].pc = "exited"
    /\ capT[m_Capturing.tid].cancel
    /\ last.aux = "joinRunning"
    /\ ring > 0

\* C24: after the callback of the capture worker returned false and the
\* worker has left runCapture, the device goes on recording a capture worker
\* until stopCapture(), close() or the destructor has joined it; in between
\* startCapture returns false, startCaptureBlockingMode returns 0 and every
\* variant of receivePackets returns 0, nothing is taken from the RX ring,
\* and no capture thread is running.
C24_ExitedWorkerBlocksDevice ==
    /\ [][(WorkerExited /\ StartCapture) =>
            (last'.ret = FALSE /\ UNCHANGED capVars)]_vars
    /\ [][(WorkerExited /\ StartCaptureBlockingMode) =>
            (mainpc' = "idle" /\ last'.ret = 0 /\ UNCHANGED bufVars)]_vars
    /\ [][(WorkerExited /\ ReceiveStep) =>
            (last'.ret = 0 /\ UNCHANGED bufVars)]_vars
    /\ [][(WorkerExited /\ ~WorkerExited') =>
            (StopCaptureJoin \/ CloseJoin \/ DestroyJoin)]_vars
    /\ [][WorkerExited => ring' >= ring]_vars
    /\ [](WorkerExited => \A t \in CapSlots : ~CapAlive(t))

\* C24: on an opened device whose capture worker stopped itself, a receive
\* has returned 0 while packets wait on the RX ring and no thread polls it.
C24_Witness ==
    /\ WorkerExited /\ ~capT[m_Capturing.tid].cancel
    /\ mainpc = "idle" /\ ~crashed
    /\ m_DeviceOpened /\ m_Device = "valid"
    /\ last.op \in ReceiveOps /\ last.ret = 0
    /\ ring > 0
    /\ \A t \in CapSlots : ~CapAlive(t)

====
